---- MODULE Spec2Model ----
(***************************************************************************)
(* Model of the daily refresh cycle (data_updater.py: fetch_tw_tickers,    *)
(* pull_fundamentals, fetch_history, compute_snr, main,                    *)
(* use_previous_as_fallback), of the dashboard loader (app.py: load_db),   *)
(* of the band calculator (compute_snr in app.py and data_updater.py) and  *)
(* of the sector aggregator (fetch_industry_and_sectors.py).               *)
(*                                                                         *)
(* Absent values (None / NaN / pd.NA) are the empty tuple NA, a present    *)
(* value v is the one-element tuple <<v>>.  Dates are day numbers; an ISO  *)
(* date string and a date object are told apart by a tag.  Band values     *)
(* (quantiles under linear interpolation) are kept in tenths.              *)
(***************************************************************************)
EXTENDS Integers, Sequences, FiniteSets, TLC

VARIABLES
    \* ---- refresh cycle (data_updater.py) ----
    pc,            \* position of main()
    today,         \* dt.date.today() of the running cycle
    result,        \* how the cycle ended: Running, Written, Reused, Failed, Crashed
    files,         \* the data directory
    start,         \* the data directory as the cycle found it
    src,           \* fetch_tw_tickers: index of the url being tried
    responses,     \* fetch_tw_tickers: what each url answered, per attempt
    frames,        \* fetch_tw_tickers: frames
    tickers_df,    \* main: tickers_df
    fund_df,       \* main: fund_df
    snr_df,        \* main: snr_df (snr_rows)
    last_dates,    \* main: last_dates
    file_date,     \* main: file_date
    fb_fund_df,    \* use_previous_as_fallback: fund_df
    fb_snr_df,     \* use_previous_as_fallback: snr_df
    fb_file_date,  \* use_previous_as_fallback: file_date
    fundTried,     \* symbols the fundamentals loop has attempted, in order
    histTried,     \* symbols the history loop has attempted, in order
    fundEnv,       \* what the fundamentals source answered, per symbol
    histEnv,       \* what the price-history source answered, per symbol
    \* ---- dashboard (app.py) ----
    dpc,           \* position of the dashboard script
    dfund,         \* load_db: fund_df
    dsnr,          \* load_db: snr_df
    used_files,    \* load_db: used_files
    data_date,     \* load_db: data_date
    \* ---- band calculator ----
    bpc,           \* position of the band computation
    window,        \* W
    closes,        \* input frame: sequence of [Date, Close]
    bandApp,       \* app.compute_snr(df, W)
    bandUpd,       \* data_updater.compute_snr(df, W)
    \* ---- sector aggregator (fetch_industry_and_sectors.py) ----
    spc,           \* position of the caller of the module's functions
    mops,          \* update_industry_map: what each endpoint answered
    industry_csv,  \* data/industry_map.csv
    sec_fund,      \* attach_industry_to_fundamentals: fund_df
    sec_snr,       \* compute_sector_performance: snr_df
    with_ind,      \* fund_df_with_ind
    perf           \* what compute_sector_performance returned

cycleVars == <<pc, today, result, files, start, src, responses,
               frames, tickers_df, fund_df, snr_df, last_dates, file_date,
               fb_fund_df, fb_snr_df, fb_file_date,
               fundTried, histTried, fundEnv, histEnv>>
Fallback == <<fb_fund_df, fb_snr_df, fb_file_date>>
Locals == <<src, responses, frames, tickers_df, fund_df, snr_df, last_dates,
            file_date, fundTried, histTried, fundEnv, histEnv, Fallback>>
dashVars == <<dpc, dfund, dsnr, used_files, data_date>>
bandVars == <<bpc, window, closes, bandApp, bandUpd>>
sectorVars == <<spc, mops, industry_csv, sec_fund, sec_snr, with_ind, perf>>
vars == <<cycleVars, dashVars, bandVars, sectorVars>>

-----------------------------------------------------------------------------
(* Values *)

NA == <<>>
Some(v) == <<v>>
IsNA(x) == x = NA
Or(a, b) == IF IsNA(a) THEN b ELSE a

Range(s) == {s[i] : i \in DOMAIN s}
Last(s) == s[Len(s)]

SetMax(S) == CHOOSE x \in S : \A y \in S : y <= x

IsoDate(d) == [tag |-> "str", day |-> d]
DateObj(d) == [tag |-> "date", day |-> d]

-----------------------------------------------------------------------------
(* Bounds and program constants *)

Today == 10
MaxRows == 61
MaxGaps == 1

retries == 3
MinUniverse == 100
SnrWindow == 120

-----------------------------------------------------------------------------
(* 1) Ticker registry: fetch_tw_tickers *)

\* A table cell.  digits > 0: the text is a `digits`-digit code, white space,
\* then `text`; digits = 0: the text is `text`.
TextCell(t) == [digits |-> 0, code |-> 0, text |-> t]
CodeCell(n, c, name) == [digits |-> n, code |-> c, text |-> name]

\* Column titles of the ISIN pages; the code looks for the substrings
\* "daihao" (code) and "shichangbie" (market) in them.
ColCodeName == "youjiazhengquan daihao ji mingcheng"
ColMarket == "shichangbie"
MarketListed == "shangshi"
MarketOtc == "shanggui"

HeaderRow == <<TextCell(ColCodeName), TextCell(ColMarket)>>
BadHeaderRow == <<TextCell("0"), TextCell("1")>>
StockRow(c, m) == <<CodeCell(4, c, "co"), TextCell(m)>>

\* The listed-market page: a section row, 99 four-digit stocks (one of them
\* listed twice), a five-digit and a six-digit instrument.
ListedRows ==
    <<<<TextCell("gupiao"), TextCell("gupiao")>>>>
    \o [i \in 1..99 |-> StockRow(1100 + i, MarketListed)]
    \o <<StockRow(1101, MarketListed),
         <<CodeCell(5, 10001, "etf"), TextCell(MarketListed)>>,
         <<CodeCell(6, 300001, "warrant"), TextCell(MarketListed)>>>>
\* The OTC page: one four-digit stock and a seven-digit instrument.
OtcRows ==
    <<StockRow(5201, MarketOtc),
      <<CodeCell(7, 7000001, "bond"), TextCell(MarketOtc)>>>>

\* The OTC page listing the stock of OtcRows a second time under another name.
OtcRenamedRows ==
    OtcRows \o <<<<CodeCell(4, 5201, "co (new)"), TextCell(MarketOtc)>>>>

urls == <<"strMode=2", "strMode=4">>
\* What pd.read_html can hand back for each url: the page's table, with the
\* expected header row or with a header row lacking the expected titles.
Tables ==
    [listed |-> <<HeaderRow>> \o ListedRows,
     listedBad |-> <<BadHeaderRow>> \o ListedRows,
     otc |-> <<HeaderRow>> \o OtcRows,
     otcBad |-> <<BadHeaderRow>> \o OtcRows,
     otcRenamed |-> <<HeaderRow>> \o OtcRenamedRows]
TablesOf(u) == IF u = 1 THEN {"listed", "listedBad"} ELSE {"otc", "otcBad", "otcRenamed"}
\* One request: an exception (requests.get fails, or pd.read_html finds no
\* table and raises), or a table.
Outcomes(u) == {"exc"} \cup TablesOf(u)
IsTable(o) == o \in DOMAIN Tables

RECURSIVE Concat(_)
Concat(fs) == IF fs = <<>> THEN <<>> ELSE Tables[Head(fs)] \o Concat(Tail(fs))

\* the titles with "daihao" / "shichangbie" in them
CodeTitles == {ColCodeName}
MarketTitles == {ColMarket}
Titled(c, titles) == c.digits = 0 /\ c.text \in titles
\* next((c for c in df.columns if ... in str(c)), None), as a column index
FindCol(columns, titles) ==
    IF \E j \in DOMAIN columns : Titled(columns[j], titles)
    THEN Some(CHOOSE j \in DOMAIN columns :
                 /\ Titled(columns[j], titles)
                 /\ \A h \in 1..(j - 1) : ~Titled(columns[h], titles))
    ELSE NA

\* str.extract(r"^(\d{4,6})\s+(.+)$")
Extract(cell) ==
    IF cell.digits >= 4 /\ cell.digits <= 6
    THEN [digits |-> cell.digits, code |-> Some(cell.code), name |-> Some(cell.text)]
    ELSE [digits |-> 0, code |-> NA, name |-> NA]

suffix(m) == IF m.digits = 0 /\ m.text = MarketOtc THEN ".TWO" ELSE ".TW"

\* keep the first of equal rows
drop_duplicates(rows) ==
    LET first == SelectSeq([i \in DOMAIN rows |-> i],
                           LAMBDA i : \A h \in 1..(i - 1) : rows[h] # rows[i])
    IN  [j \in DOMAIN first |-> rows[first[j]]]

\* Lines 37-57: from frames to the returned table.  found = FALSE is the
\* early return of an empty table (no frames, or no code / market column).
ParseTickers(fs) ==
    IF fs = <<>> THEN [found |-> FALSE, out |-> <<>>]
    ELSE
      LET all == Concat(fs)
          columns == all[1]
          df == Tail(all)
          code_name_col == FindCol(columns, CodeTitles)
          market_col == FindCol(columns, MarketTitles)
      IN  IF IsNA(code_name_col) \/ IsNA(market_col)
          THEN [found |-> FALSE, out |-> <<>>]
          ELSE
            LET parsed == [i \in DOMAIN df |-> Extract(df[i][code_name_col[1]])]
                keep == SelectSeq([i \in DOMAIN df |-> i],
                                  LAMBDA i : ~IsNA(parsed[i].code) /\ parsed[i].digits = 4)
                out == [j \in DOMAIN keep |->
                          LET i == keep[j]
                              m == df[i][market_col[1]]
                          IN  [code |-> parsed[i].code[1],
                               name |-> parsed[i].name[1],
                               market |-> m.text,
                               yahoo |-> <<parsed[i].code[1], suffix(m)>>]]
            IN  [found |-> TRUE, out |-> drop_duplicates(out)]

\* The dated files of one table, by day: NA where there is none
NoDated == [d \in 1..Today |-> NA]
Dates(dir) == {d \in DOMAIN dir : ~IsNA(dir[d])}
NoFiles == [fund_parquet |-> NA, snr_parquet |-> NA,
            fund_csv |-> NoDated, snr_csv |-> NoDated, tickers_csv |-> NoDated]

\* to_csv on a dated file: create or overwrite
Put(dir, d, rows) == [dir EXCEPT ![d] = Some(rows)]

NoResponses == [u \in DOMAIN urls |-> <<>>]

\* One pass of the inner retry loop (lines 27-34) for url `src`.
FetchRequest(o) ==
    /\ pc = "fetch"
    /\ src \in DOMAIN urls
    /\ Len(responses[src]) < retries
    /\ responses' = [responses EXCEPT ![src] = Append(@, o)]
    /\ IF IsTable(o)
       THEN /\ frames' = Append(frames, o)
            /\ src' = src + 1
       ELSE /\ frames' = frames
            /\ src' = IF Len(responses[src]) + 1 = retries THEN src + 1 ELSE src
    /\ UNCHANGED <<pc, today, result, files, start, tickers_df, fund_df,
                   snr_df, last_dates, file_date, fundTried, histTried, fundEnv, histEnv,
                   Fallback>>
    /\ UNCHANGED <<dashVars, bandVars, sectorVars>>

\* Lines 37-62: parse, write tickers_<today>.csv, return.
FetchReturn ==
    /\ pc = "fetch"
    /\ src > Len(urls)
    /\ LET r == ParseTickers(frames)
       IN  /\ tickers_df' = r.out
           /\ files' = IF r.found
                       THEN [files EXCEPT !.tickers_csv = Put(@, today, r.out)]
                       ELSE files
    /\ pc' = "check_registry"
    /\ UNCHANGED <<today, result, start, src, responses, frames, fund_df,
                   snr_df, last_dates, file_date, fundTried, histTried, fundEnv, histEnv,
                   Fallback>>
    /\ UNCHANGED <<dashVars, bandVars, sectorVars>>

Tickers == [i \in DOMAIN tickers_df |-> tickers_df[i].yahoo]

-----------------------------------------------------------------------------
(* 2) yfinance helpers: pull_fundamentals, fetch_history, compute_snr *)

\* What yfinance can do for one symbol: yf.Ticker raises ("raise"), both of
\* t.info and t.fast_info fail ("nodata"), only t.fast_info answers
\* ("fastonly"), both answer ("data").
FundKinds == {"raise", "nodata", "fastonly", "data"}
Info(kind) == kind = "data"
Fast(kind) == kind \in {"data", "fastonly"}

\* Lines 65-88.  sector, industry, currency and the ratio columns are read
\* from info alone, as shortName and trailingPE are.
pull_fundamentals(ticker, kind) ==
    LET info(v) == IF Info(kind) THEN Some(v) ELSE NA
        fast(v) == IF Fast(kind) THEN Some(v) ELSE NA
    IN  [Ticker |-> ticker,
         shortName |-> info("co"),
         sector |-> info("sec"),
         industry |-> info("ind"),
         marketCap |-> Or(info(5000), fast(5001)),
         trailingPE |-> info(15),
         lastPrice |-> Or(fast(101), info(100))]

\* What yf.download can do for one symbol: raise, hand back an empty frame,
\* or hand back `rows` daily rows ending `lag` days before today, `gaps` of
\* them (the oldest) without a close.
HistKind(k, rows, gaps, lag) == [k |-> k, rows |-> rows, gaps |-> gaps, lag |-> lag]
Download(kind, day) ==
    [i \in 1..kind.rows |->
        [Date |-> day - kind.lag - (kind.rows - i),
         Close |-> IF i <= kind.gaps THEN NA ELSE Some(100 + i)]]

\* Lines 90-102: empty frame, or the rows with a close
fetch_history(kind, day) ==
    IF kind.k = "empty" THEN <<>>
    ELSE SelectSeq(Download(kind, day), LAMBDA r : ~IsNA(r.Close))

Max(a, b) == IF a >= b THEN a ELSE b
Min(a, b) == IF a <= b THEN a ELSE b

\* min_periods without the floor of 20
MinPeriods_QuarterOnly(w) == w \div 4

\* rolling(window, min_periods=max(20, window // 4))
MinPeriods(w) == Max(20, w \div 4)

Sorted(vals) == SortSeq(vals, LAMBDA a, b : a < b)

\* quantile(num/den) of ascending values under linear interpolation, in tenths
Quantile(sorted, num, den) ==
    LET n == Len(sorted)
        lo == (num * (n - 1)) \div den
        rem == (num * (n - 1)) % den
        a == sorted[lo + 1]
        b == sorted[Min(lo + 1, n - 1) + 1]
    IN  10 * a + ((10 * rem) \div den) * (b - a)

\* The closes observed inside the window of `w` rows ending at row t
WindowVals(df, w, t) ==
    LET win == SubSeq(df, Max(1, t - w + 1), t)
        obs == SelectSeq(win, LAMBDA r : ~IsNA(r.Close))
    IN  [i \in DOMAIN obs |-> obs[i].Close[1]]

\* roll.quantile(q) at a row: absent below min_periods observations
RollQuantile(vals, w, num, den) ==
    IF Len(vals) < MinPeriods(w) THEN NA ELSE Some(Quantile(Sorted(vals), num, den))

Bands(df, w) ==
    [t \in DOMAIN df |->
        LET vals == WindowVals(df, w, t)
        IN  [Date |-> df[t].Date, Close |-> df[t].Close,
             S |-> RollQuantile(vals, w, 1, 5),
             N |-> RollQuantile(vals, w, 1, 2),
             R |-> RollQuantile(vals, w, 4, 5)]]

\* data_updater.py lines 104-114: None (NA) for an empty frame
compute_snr(df, window_days) == IF df = <<>> THEN NA ELSE Bands(df, window_days)

\* app.py lines 83-91: the frame itself (no rows) for an empty frame
app_compute_snr(df, w) == IF df = <<>> THEN <<>> ELSE Bands(df, w)

Complete(r) == ~IsNA(r.Close) /\ ~IsNA(r.S) /\ ~IsNA(r.N) /\ ~IsNA(r.R)

-----------------------------------------------------------------------------
(* 3) main *)

\* The answers of an upstream source for the symbols of one cycle: the first
\* symbol gets one answer, all the others a second one.
Scenarios(n, First, Rest) ==
    {[i \in 1..n |-> IF i = 1 THEN a ELSE b] : a \in First, b \in Rest}

\* The price-history answers tried: an exception, an empty frame, and frames
\* of min_periods rows, all with a close or one without, ending today or the
\* day before.
HistKindSeq ==
    <<HistKind("raise", 0, 0, 0), HistKind("empty", 0, 0, 0),
      HistKind("rows", MinPeriods(SnrWindow), 0, 0),
      HistKind("rows", MinPeriods(SnrWindow), 0, 1),
      HistKind("rows", MinPeriods(SnrWindow), 1, 0),
      HistKind("rows", MinPeriods(SnrWindow), 1, 1),
      HistKind("rows", MinPeriods(SnrWindow) + 1, 0, 0)>>
HistKinds == Range(HistKindSeq)
FundScenarios(n) == Scenarios(n, FundKinds, FundKinds \ {"fastonly"})
HistScenarios(n) == Scenarios(n, HistKinds, Range(SubSeq(HistKindSeq, 2, 5)))

\* Lines 129-130 for one symbol
FundBody(t, kind, acc) ==
    [rows |-> IF kind = "raise" THEN acc.rows
              ELSE Append(acc.rows, pull_fundamentals(t, kind)),
     tried |-> Append(acc.tried, t)]

\* FundLoop with the exception of a symbol ending the loop
FundLoop_StopsAtRaise(tickers, env, lo, hi, acc) ==
    LET raising == {i \in lo..hi : env[i] = "raise"}
        stop == IF raising = {} THEN hi + 1
                ELSE CHOOSE i \in raising : \A j \in raising : i <= j
    IN  [rows |-> acc.rows \o [j \in 1..(stop - lo) |->
                                  pull_fundamentals(tickers[lo + j - 1], env[lo + j - 1])],
         tried |-> acc.tried \o [j \in 1..(Min(stop, hi) - lo + 1) |-> tickers[lo + j - 1]]]

\* Lines 127-131 for the symbols lo..hi, in order (the range is halved to
\* keep the evaluation shallow)
RECURSIVE FundLoop(_, _, _, _, _)
FundLoop(tickers, env, lo, hi, acc) ==
    IF lo > hi THEN acc
    ELSE IF lo = hi THEN FundBody(tickers[lo], env[lo], acc)
    ELSE LET mid == (lo + hi) \div 2
             left == FundLoop(tickers, env, lo, mid, acc)
         IN  \* the test makes TLC finish lo..mid before it starts on the rest
             IF Len(left.tried) >= 0
             THEN FundLoop(tickers, env, mid + 1, hi, left) ELSE acc

\* HistOutcome without the test of line 147: the last row is kept although no
\* row of the series is complete
HistOutcome_KeepsIncomplete(kind, day) ==
    IF kind.k = "raise" THEN [raised |-> TRUE, date |-> NA, row |-> NA]
    ELSE
      LET hist == fetch_history(kind, day)
      IN  IF hist = <<>> THEN [raised |-> FALSE, date |-> NA, row |-> NA]
          ELSE
            LET last == Last(compute_snr(hist, SnrWindow))
            IN  [raised |-> FALSE,
                 date |-> Some(Last(hist).Date),
                 row |-> Some([LastDate |-> DateObj(last.Date),
                               Close |-> last.Close,
                               S |-> last.S, N |-> last.N, R |-> last.R])]

\* Lines 142-157 for one symbol, its name apart: whether the body raised, the
\* date it appends to last_dates and the row it appends to snr_rows
HistOutcome(kind, day) ==
    IF kind.k = "raise" THEN [raised |-> TRUE, date |-> NA, row |-> NA]
    ELSE
      LET hist == fetch_history(kind, day)
      IN  IF hist = <<>> THEN [raised |-> FALSE, date |-> NA, row |-> NA]
          ELSE
            LET snr == compute_snr(hist, SnrWindow)
            IN  IF IsNA(snr) \/ SelectSeq(snr, Complete) = <<>>
                THEN [raised |-> FALSE, date |-> Some(Last(hist).Date), row |-> NA]
                ELSE
                  LET last == Last(SelectSeq(snr, LAMBDA r : ~IsNA(r.Close)))
                  IN  [raised |-> FALSE,
                       date |-> Some(Last(hist).Date),
                       row |-> Some([LastDate |-> DateObj(last.Date),
                                     Close |-> last.Close,
                                     S |-> last.S, N |-> last.N, R |-> last.R])]

\* Lines 141-159 for symbol t: the appends of its outcome
HistBody(t, o, acc) ==
    [rows |-> IF IsNA(o.row) THEN acc.rows
              ELSE Append(acc.rows,
                          [Ticker |-> t, LastDate |-> o.row[1].LastDate,
                           Close |-> o.row[1].Close, S |-> o.row[1].S,
                           N |-> o.row[1].N, R |-> o.row[1].R]),
     dates |-> acc.dates \o o.date,
     tried |-> Append(acc.tried, t)]

\* Lines 139-160 for the symbols lo..hi, in order; outs[i] is the outcome of
\* the body for symbol i
RECURSIVE HistLoop(_, _, _, _, _)
HistLoop(tickers, outs, lo, hi, acc) ==
    IF lo > hi THEN acc
    ELSE IF lo = hi THEN HistBody(tickers[lo], outs[lo], acc)
    ELSE LET mid == (lo + hi) \div 2
             left == HistLoop(tickers, outs, lo, mid, acc)
         IN  IF Len(left.tried) >= 0
             THEN HistLoop(tickers, outs, mid + 1, hi, left) ELSE acc

\* The outcome of the loop body per symbol, each answer of the source worked
\* out once
OutcomesOn(day) == <<>> \o [j \in DOMAIN HistKindSeq |-> HistOutcome(HistKindSeq[j], day)]
\* those of a cycle run on day Today, kept
OutcomesToday == OutcomesOn(Today)
HistOutcomes(env, day) ==
    LET memo == IF day = Today THEN OutcomesToday ELSE OutcomesOn(day)
    IN  [i \in DOMAIN env |-> memo[CHOOSE j \in DOMAIN HistKindSeq : HistKindSeq[j] = env[i]]]

\* df["asOfDate"] = file_date
Stamp(rows, d) ==
    [i \in DOMAIN rows |->
        [f \in DOMAIN rows[i] \cup {"asOfDate"} |->
            IF f = "asOfDate" THEN d ELSE rows[i][f]]]

\* to_csv followed by read_csv: a date object comes back as its ISO string
Csv(rows) ==
    [i \in DOMAIN rows |->
        [f \in DOMAIN rows[i] |->
            IF f = "LastDate" THEN IsoDate(rows[i][f].day) ELSE rows[i][f]]]

ClearLocals ==
    /\ src' = 1
    /\ responses' = NoResponses
    /\ frames' = <<>>
    /\ tickers_df' = <<>>
    /\ fund_df' = <<>>
    /\ snr_df' = <<>>
    /\ last_dates' = <<>>
    /\ file_date' = NA
    /\ fb_fund_df' = <<>>
    /\ fb_snr_df' = <<>>
    /\ fb_file_date' = NA
    /\ fundTried' = <<>>
    /\ histTried' = <<>>
    /\ fundEnv' = <<>>
    /\ histEnv' = <<>>

\* CheckRegistry without the size test: only an empty registry falls back
CheckRegistry_EmptyOnly ==
    /\ pc = "check_registry"
    /\ pc' = IF tickers_df = <<>> THEN "fallback" ELSE "fundamentals"
    /\ src' = 1
    /\ responses' = NoResponses
    /\ frames' = <<>>
    /\ UNCHANGED <<today, result, files, start, tickers_df, fund_df, snr_df,
                   last_dates, file_date, fundTried, histTried, fundEnv, histEnv,
                   Fallback>>
    /\ UNCHANGED <<dashVars, bandVars, sectorVars>>

\* Lines 118-124
CheckRegistry ==
    /\ pc = "check_registry"
    /\ pc' = IF tickers_df = <<>> \/ Len(tickers_df) < MinUniverse
             THEN "fallback" ELSE "fundamentals"
    /\ src' = 1
    /\ responses' = NoResponses
    /\ frames' = <<>>
    /\ UNCHANGED <<today, result, files, start, tickers_df, fund_df, snr_df,
                   last_dates, file_date, fundTried, histTried, fundEnv, histEnv,
                   Fallback>>
    /\ UNCHANGED <<dashVars, bandVars, sectorVars>>

\* Lines 126-136
Fundamentals(env) ==
    /\ pc = "fundamentals"
    /\ LET r == FundLoop(Tickers, env, 1, Len(Tickers), [rows |-> <<>>, tried |-> <<>>])
       IN  /\ fund_df' = r.rows
           /\ fundTried' = r.tried
           /\ pc' = IF r.rows = <<>> THEN "fallback" ELSE "history"
    /\ fundEnv' = env
    /\ UNCHANGED <<today, result, files, start, src, responses, frames,
                   tickers_df, snr_df, last_dates, file_date, histTried, histEnv,
                   Fallback>>
    /\ UNCHANGED <<dashVars, bandVars, sectorVars>>

\* History with the as-of date taken from the rows of snr_rows
History_DateFromRows(env) ==
    /\ pc = "history"
    /\ LET r == HistLoop(Tickers, HistOutcomes(env, today), 1, Len(Tickers),
                         [rows |-> <<>>, dates |-> <<>>, tried |-> <<>>])
       IN  /\ snr_df' = r.rows
           /\ last_dates' = r.dates
           /\ histTried' = r.tried
           /\ IF r.dates = <<>> \/ r.rows = <<>>
              THEN pc' = "fallback" /\ file_date' = file_date
              ELSE pc' = "write_fund_parquet"
                   /\ file_date' = Some(IsoDate(SetMax({row.LastDate.day :
                                                          row \in Range(r.rows)})))
    /\ histEnv' = env
    /\ UNCHANGED <<today, result, files, start, src, responses, frames,
                   tickers_df, fund_df, fundTried, fundEnv, Fallback>>
    /\ UNCHANGED <<dashVars, bandVars, sectorVars>>

\* Lines 138-168
History(env) ==
    /\ pc = "history"
    /\ LET r == HistLoop(Tickers, HistOutcomes(env, today), 1, Len(Tickers),
                         [rows |-> <<>>, dates |-> <<>>, tried |-> <<>>])
       IN  /\ snr_df' = r.rows
           /\ last_dates' = r.dates
           /\ histTried' = r.tried
           /\ IF r.dates = <<>> \/ r.rows = <<>>
              THEN pc' = "fallback" /\ file_date' = file_date
              ELSE pc' = "write_fund_parquet"
                   /\ file_date' = Some(IsoDate(SetMax(Range(r.dates))))
    /\ histEnv' = env
    /\ UNCHANGED <<today, result, files, start, src, responses, frames,
                   tickers_df, fund_df, fundTried, fundEnv, Fallback>>
    /\ UNCHANGED <<dashVars, bandVars, sectorVars>>

\* Lines 171-172
WriteFundParquet ==
    /\ pc = "write_fund_parquet"
    /\ fund_df' = Stamp(fund_df, file_date[1])
    /\ files' = [files EXCEPT !.fund_parquet = Some(fund_df')]
    /\ pc' = "write_fund_csv"
    /\ UNCHANGED <<today, result, start, src, responses, frames, tickers_df,
                   snr_df, last_dates, file_date, fundTried, histTried, fundEnv, histEnv,
                   Fallback>>
    /\ UNCHANGED <<dashVars, bandVars, sectorVars>>

\* Line 173
WriteFundCsv ==
    /\ pc = "write_fund_csv"
    /\ files' = [files EXCEPT !.fund_csv = Put(@, file_date[1].day, Csv(fund_df))]
    /\ pc' = "write_snr_parquet"
    /\ UNCHANGED <<today, result, start, Locals>>
    /\ UNCHANGED <<dashVars, bandVars, sectorVars>>

\* Lines 176-178
WriteSnrParquet ==
    /\ pc = "write_snr_parquet"
    /\ snr_df' = Stamp(snr_df, file_date[1])
    /\ files' = [files EXCEPT !.snr_parquet = Some(snr_df')]
    /\ pc' = "write_snr_csv"
    /\ UNCHANGED <<today, result, start, src, responses, frames, tickers_df,
                   fund_df, last_dates, file_date, fundTried, histTried, fundEnv, histEnv,
                   Fallback>>
    /\ UNCHANGED <<dashVars, bandVars, sectorVars>>

\* Lines 179-180: the cycle ends Written
WriteSnrCsv ==
    /\ pc = "write_snr_csv"
    /\ files' = [files EXCEPT !.snr_csv = Put(@, file_date[1].day, Csv(snr_df))]
    /\ pc' = "done"
    /\ result' = "Written"
    /\ UNCHANGED <<today, start, Locals>>
    /\ UNCHANGED <<dashVars, bandVars, sectorVars>>

-----------------------------------------------------------------------------
(* 4) use_previous_as_fallback *)

\* the first of the sorted names instead of the last
Latest_Oldest(dir) == CHOOSE d \in Dates(dir) : \A e \in Dates(dir) : d <= e

\* sorted(glob.glob(...))[-1]: ISO dates sort as the days they name
Latest(dir) == SetMax(Dates(dir))

\* FallbackRead stamping the day of the run instead of the archive's
FallbackRead_StampsToday ==
    /\ pc = "fallback"
    /\ IF Dates(files.fund_csv) = {} \/ Dates(files.snr_csv) = {}
       THEN /\ pc' = "done"
            /\ result' = "Failed"
            /\ UNCHANGED Fallback
       ELSE LET d == IsoDate(today)
            IN  /\ fb_file_date' = Some(d)
                /\ fb_fund_df' = Stamp(files.fund_csv[Latest(files.fund_csv)][1], d)
                /\ fb_snr_df' = Stamp(files.snr_csv[Latest(files.snr_csv)][1], d)
                /\ pc' = "fallback_write_fund"
                /\ result' = result
    /\ UNCHANGED <<today, files, start, src, responses, frames, tickers_df, fund_df,
                   snr_df, last_dates, file_date, fundTried, histTried, fundEnv, histEnv>>
    /\ UNCHANGED <<dashVars, bandVars, sectorVars>>

\* FallbackRead that, lacking the snr_summary archive, still overwrites the
\* "latest" fundamentals from the fundamentals archive before giving up
FallbackRead_ReusesFundAlone ==
    /\ pc = "fallback"
    /\ IF Dates(files.fund_csv) = {} \/ Dates(files.snr_csv) = {}
       THEN /\ pc' = "done"
            /\ result' = "Failed"
            /\ files' = IF Dates(files.fund_csv) = {} THEN files
                        ELSE [files EXCEPT !.fund_parquet =
                                 Some(Stamp(files.fund_csv[Latest(files.fund_csv)][1],
                                            IsoDate(today)))]
            /\ UNCHANGED Fallback
       ELSE LET d == IsoDate(Latest(files.snr_csv))
            IN  /\ fb_file_date' = Some(d)
                /\ fb_fund_df' = Stamp(files.fund_csv[Latest(files.fund_csv)][1], d)
                /\ fb_snr_df' = Stamp(files.snr_csv[Latest(files.snr_csv)][1], d)
                /\ pc' = "fallback_write_fund"
                /\ result' = result
                /\ files' = files
    /\ UNCHANGED <<today, start, src, responses, frames, tickers_df, fund_df,
                   snr_df, last_dates, file_date, fundTried, histTried, fundEnv, histEnv>>
    /\ UNCHANGED <<dashVars, bandVars, sectorVars>>

\* Lines 184-197: Failed without both archives, else read and re-stamp
FallbackRead ==
    /\ pc = "fallback"
    /\ IF Dates(files.fund_csv) = {} \/ Dates(files.snr_csv) = {}
       THEN /\ pc' = "done"
            /\ result' = "Failed"
            /\ UNCHANGED Fallback
       ELSE LET d == IsoDate(Latest(files.snr_csv))
            IN  /\ fb_file_date' = Some(d)
                /\ fb_fund_df' = Stamp(files.fund_csv[Latest(files.fund_csv)][1], d)
                /\ fb_snr_df' = Stamp(files.snr_csv[Latest(files.snr_csv)][1], d)
                /\ pc' = "fallback_write_fund"
                /\ result' = result
    /\ UNCHANGED <<today, files, start, src, responses, frames, tickers_df, fund_df,
                   snr_df, last_dates, file_date, fundTried, histTried, fundEnv, histEnv>>
    /\ UNCHANGED <<dashVars, bandVars, sectorVars>>

\* Line 198
FallbackWriteFund ==
    /\ pc = "fallback_write_fund"
    /\ files' = [files EXCEPT !.fund_parquet = Some(fb_fund_df)]
    /\ pc' = "fallback_write_snr"
    /\ UNCHANGED <<today, result, start, Locals>>
    /\ UNCHANGED <<dashVars, bandVars, sectorVars>>

\* Lines 199-200: the cycle ends Reused
FallbackWriteSnr ==
    /\ pc = "fallback_write_snr"
    /\ files' = [files EXCEPT !.snr_parquet = Some(fb_snr_df)]
    /\ pc' = "done"
    /\ result' = "Reused"
    /\ UNCHANGED <<today, start, Locals>>
    /\ UNCHANGED <<dashVars, bandVars, sectorVars>>

-----------------------------------------------------------------------------------------------------------------------------------------------------
(* The process around main can die between any two steps. *)

Running == pc \notin {"done", "crashed"}

Crash ==
    /\ Running
    /\ pc' = "crashed"
    /\ result' = "Crashed"
    /\ ClearLocals
    /\ UNCHANGED <<today, files, start>>
    /\ UNCHANGED <<dashVars, bandVars, sectorVars>>

-----------------------------------------------------------------------------
(* The data directory a cycle can find: what earlier cycles left behind. *)

AllOf(n, kind) == [i \in 1..n |-> kind]
FullRegistry == ParseTickers(<<"listed", "otc">>).out
Yahoo(registry) == [i \in DOMAIN registry |-> registry[i].yahoo]
FullTickers == Yahoo(FullRegistry)

\* fund_df and snr_df of a cycle run on `day` in which every source answered
\* for every symbol
GoodFund(tickers, day) ==
    Stamp(FundLoop(tickers, AllOf(Len(tickers), "data"), 1, Len(tickers),
                   [rows |-> <<>>, tried |-> <<>>]).rows,
          IsoDate(day))
GoodSnr(tickers, day) ==
    Stamp(HistLoop(tickers,
                   HistOutcomes(AllOf(Len(tickers), HistKindSeq[3]), day),
                   1, Len(tickers),
                   [rows |-> <<>>, dates |-> <<>>, tried |-> <<>>]).rows,
          IsoDate(day))

\* what such a cycle holds when it starts to write
GoodCycle(registry, day) ==
    [day |-> day, registry |-> registry,
     fund |-> GoodFund(Yahoo(registry), day), snr |-> GoodSnr(Yahoo(registry), day)]

\* after the first `steps` of the four writes of cycle c
AfterWrites(dir, c, steps) ==
    [fund_parquet |-> IF steps >= 1 THEN Some(c.fund) ELSE dir.fund_parquet,
     fund_csv |-> IF steps >= 2 THEN Put(dir.fund_csv, c.day, Csv(c.fund))
                  ELSE dir.fund_csv,
     snr_parquet |-> IF steps >= 3 THEN Some(c.snr) ELSE dir.snr_parquet,
     snr_csv |-> IF steps >= 4 THEN Put(dir.snr_csv, c.day, Csv(c.snr))
                 ELSE dir.snr_csv,
     tickers_csv |-> Put(dir.tickers_csv, c.day, c.registry)]

\* nothing yet; cycle `old` ended Written; the same followed by cycle `new`
\* that died after its second write; a first cycle `new` that died after its
\* second write
Dirs(old, new) ==
    {NoFiles,
     AfterWrites(NoFiles, old, 4),
     AfterWrites(AfterWrites(NoFiles, old, 4), new, 2),
     AfterWrites(NoFiles, new, 2)}

\* left by a cycle of two days ago and a cycle of yesterday
PriorDirs == Dirs(GoodCycle(FullRegistry, Today - 2), GoodCycle(FullRegistry, Today - 1))

DashIdle ==
    /\ dpc = "off" /\ dfund = NA /\ dsnr = NA /\ used_files = <<>> /\ data_date = NA
BandIdle ==
    /\ bpc = "off" /\ window = 0 /\ closes = <<>> /\ bandApp = <<>> /\ bandUpd = NA
SectorIdle ==
    /\ spc = "off" /\ mops = <<>> /\ industry_csv = NA /\ sec_fund = NA
    /\ sec_snr = NA /\ with_ind = NA /\ perf = NA

Init ==
    /\ pc = "fetch"
    /\ today = Today
    /\ result = "Running"
    /\ files \in PriorDirs
    /\ start = files
    /\ src = 1
    /\ responses = NoResponses
    /\ frames = <<>>
    /\ tickers_df = <<>>
    /\ fund_df = <<>>
    /\ snr_df = <<>>
    /\ last_dates = <<>>
    /\ file_date = NA
    /\ fb_fund_df = <<>>
    /\ fb_snr_df = <<>>
    /\ fb_file_date = NA
    /\ fundTried = <<>>
    /\ histTried = <<>>
    /\ fundEnv = <<>>
    /\ histEnv = <<>>
    /\ DashIdle
    /\ BandIdle
    /\ SectorIdle

Next ==
    \/ \E o \in Outcomes(src) : FetchRequest(o)
    \/ FetchReturn
    \/ CheckRegistry
    \/ \E env \in FundScenarios(Len(tickers_df)) : Fundamentals(env)
    \/ \E env \in HistScenarios(Len(tickers_df)) : History(env)
    \/ WriteFundParquet
    \/ WriteFundCsv
    \/ WriteSnrParquet
    \/ WriteSnrCsv
    \/ FallbackRead
    \/ FallbackWriteFund
    \/ FallbackWriteSnr
    \/ Crash

Spec == Init /\ [][Next]_vars

-----------------------------------------------------------------------------
(* 5) Dashboard: load_db and the branch on its result (app.py) *)

\* A file that exists and cannot be read
Corrupt == <<<<>>, <<>>>>
IsCorrupt(file) == Len(file) = 2
Readable(file) == Len(file) = 1

UsedFile(name, day, ok) == [file |-> name, day |-> day, ok |-> ok]

\* Lines 19-30: the two "latest" files, each read if it exists
LoadParquet ==
    /\ dpc = "load_parquet"
    /\ dfund' = IF Readable(files.fund_parquet) THEN files.fund_parquet ELSE NA
    /\ dsnr' = IF Readable(files.snr_parquet) THEN files.snr_parquet ELSE NA
    /\ used_files' =
          (IF IsNA(files.fund_parquet) THEN <<>>
           ELSE <<UsedFile("fundamentals.parquet", 0, Readable(files.fund_parquet))>>)
          \o (IF IsNA(files.snr_parquet) THEN <<>>
              ELSE <<UsedFile("snr_summary.parquet", 0, Readable(files.snr_parquet))>>)
    /\ dpc' = "load_csv"
    /\ UNCHANGED <<data_date, cycleVars, bandVars, sectorVars>>

\* fund_df is None or fund_df.empty
NoTable(df) == IsNA(df) \/ df[1] = <<>>

\* Lines 33-42: the newest dated file where the "latest" one gave nothing;
\* pd.read_csv is not guarded, an unreadable file raises out of load_db
LoadCsv ==
    /\ dpc = "load_csv"
    /\ LET needF == NoTable(dfund) /\ Dates(files.fund_csv) # {}
           needS == NoTable(dsnr) /\ Dates(files.snr_csv) # {}
           csvF == files.fund_csv[Latest(files.fund_csv)]
           csvS == files.snr_csv[Latest(files.snr_csv)]
       IN  IF needF /\ IsCorrupt(csvF)
           THEN /\ dpc' = "raised"
                /\ UNCHANGED <<dfund, dsnr, used_files>>
           ELSE /\ dfund' = IF needF THEN csvF ELSE dfund
                /\ IF needS /\ IsCorrupt(csvS)
                   THEN /\ dpc' = "raised"
                        /\ dsnr' = dsnr
                        /\ used_files' = used_files \o
                              (IF needF
                               THEN <<UsedFile("fundamentals.csv", Latest(files.fund_csv), TRUE)>>
                               ELSE <<>>)
                   ELSE /\ dpc' = "pick_date"
                        /\ dsnr' = IF needS THEN csvS ELSE dsnr
                        /\ used_files' = used_files
                              \o (IF needF
                                  THEN <<UsedFile("fundamentals.csv", Latest(files.fund_csv), TRUE)>>
                                  ELSE <<>>)
                              \o (IF needS
                                  THEN <<UsedFile("snr_summary.csv", Latest(files.snr_csv), TRUE)>>
                                  ELSE <<>>)
    /\ UNCHANGED <<data_date, cycleVars, bandVars, sectorVars>>

\* Lines 46-60: the asOfDate of the first row, else the date in the name of
\* the newest dated file, else None
pick_date(df, dir) ==
    IF ~NoTable(df) /\ "asOfDate" \in DOMAIN df[1][1]
    THEN Some(df[1][1].asOfDate.day)
    ELSE IF Dates(dir) # {} THEN Some(Latest(dir)) ELSE NA

\* Lines 45-64
PickDate ==
    /\ dpc = "pick_date"
    /\ data_date' = Or(pick_date(dfund, files.fund_csv), pick_date(dsnr, files.snr_csv))
    /\ dpc' = "render"
    /\ UNCHANGED <<dfund, dsnr, used_files, cycleVars, bandVars, sectorVars>>

\* Lines 132-146 and 206-209: without a fundamentals table the left column
\* warns and only the live single-symbol query is offered
Render ==
    /\ dpc = "render"
    /\ dpc' = IF NoTable(dfund) THEN "on_demand" ELSE "database"
    /\ UNCHANGED <<dfund, dsnr, used_files, data_date, cycleVars, bandVars, sectorVars>>

\* The data directories the dashboard is started on: each "latest" file
\* absent, unreadable, empty or holding a table; each of the two newest dated
\* files of a table absent, unreadable or holding that day's table.
DashFund(day) ==
    Stamp(<<pull_fundamentals(FullTickers[1], "data"),
            pull_fundamentals(FullTickers[2], "nodata")>>, IsoDate(day))
DashSnr(day) ==
    Stamp(HistLoop(SubSeq(FullTickers, 1, 1),
                   HistOutcomes(<<HistKindSeq[3]>>, day), 1, 1,
                   [rows |-> <<>>, dates |-> <<>>, tried |-> <<>>]).rows,
          IsoDate(day))
LatestStates(table) == {NA, Corrupt, Some(<<>>), Some(table)}
DatedStates(table) == {NA, Corrupt, Some(Csv(table))}
DatedDirs(a, b) ==
    {[d \in 1..Today |-> IF d = Today - 2 THEN x ELSE IF d = Today - 1 THEN y ELSE NA] :
        x \in DatedStates(a), y \in DatedStates(b)}
DashDirs ==
    [fund_parquet : LatestStates(DashFund(Today - 1)),
     snr_parquet : LatestStates(DashSnr(Today - 1)),
     fund_csv : DatedDirs(DashFund(Today - 2), DashFund(Today - 1)),
     snr_csv : DatedDirs(DashSnr(Today - 2), DashSnr(Today - 1)),
     tickers_csv : {NoDated}]

CycleIdle ==
    /\ pc = "off" /\ today = Today /\ result = "Off"
    /\ src = 1 /\ responses = NoResponses /\ frames = <<>> /\ tickers_df = <<>>
    /\ fund_df = <<>> /\ snr_df = <<>> /\ last_dates = <<>> /\ file_date = NA
    /\ fb_fund_df = <<>> /\ fb_snr_df = <<>> /\ fb_file_date = NA
    /\ fundTried = <<>> /\ histTried = <<>> /\ fundEnv = <<>> /\ histEnv = <<>>

InitDash ==
    /\ CycleIdle
    /\ BandIdle
    /\ SectorIdle
    /\ files \in DashDirs
    /\ start = files
    /\ dpc = "load_parquet"
    /\ dfund = NA /\ dsnr = NA /\ used_files = <<>> /\ data_date = NA

NextDash == LoadParquet \/ LoadCsv \/ PickDate \/ Render

SpecDash == InitDash /\ [][NextDash]_vars

-----------------------------------------------------------------------------
(* 6) Band calculator on its own: compute_snr of app.py and data_updater.py *)

\* st.slider("SNR ...", min_value=60, max_value=240, value=120, step=10)
Windows == {w \in 60..240 : w % 10 = 0}

\* Frames of up to MaxRows daily rows, up to MaxGaps of them without a close
Frames ==
    {Download(HistKind("rows", n, g, 0), Today) : n \in 0..MaxRows, g \in 0..MaxGaps}

AppComputeSnr ==
    /\ bpc = "input"
    /\ bandApp' = app_compute_snr(closes, window)
    /\ bpc' = "app_done"
    /\ UNCHANGED <<window, closes, bandUpd, cycleVars, dashVars, sectorVars>>

UpdaterComputeSnr ==
    /\ bpc = "app_done"
    /\ bandUpd' = compute_snr(closes, window)
    /\ bpc' = "done"
    /\ UNCHANGED <<window, closes, bandApp, cycleVars, dashVars, sectorVars>>

InitBand ==
    /\ CycleIdle
    /\ SectorIdle
    /\ files = NoFiles /\ start = NoFiles
    /\ DashIdle
    /\ bpc = "input"
    /\ window \in Windows
    /\ closes \in Frames
    /\ bandApp = <<>>
    /\ bandUpd = NA

NextBand == AppComputeSnr \/ UpdaterComputeSnr

SpecBand == InitBand /\ [][NextBand]_vars

-----------------------------------------------------------------------------
(* 7) Sector aggregator: fetch_industry_and_sectors.py *)

\* The label of the bucket of unclassified symbols (line 60, 107, 114, 162)
Unclassified == "weifenlei"

\* Column titles of the MOPS tables; the code looks for the substrings
\* "daihao" (code) and "chanye" (industry) in them.
ColCompanyCode == "gongsi daihao"
ColIndustry == "chanye leibie"
ColCompanyName == "gongsi mingcheng"
MopsCodeTitles == {ColCompanyCode}
MopsIndustryTitles == {ColIndustry}

\* next((c for c in df.columns if ...), None), as a column index
MopsCol(columns, titles) ==
    IF \E j \in DOMAIN columns : columns[j] \in titles
    THEN Some(CHOOSE j \in DOMAIN columns :
                 /\ columns[j] \in titles
                 /\ \A h \in 1..(j - 1) : columns[h] \notin titles)
    ELSE NA

\* A code cell is a number of `digits` digits (CodeCell) or a text without
\* digits (TextCell); a label cell is a text or absent (NaN).
CompanyRow(c, label) == <<CodeCell(4, c, ""), label>>

\* The tables the MOPS pages can hand back: the listed companies (a label
\* with blanks around it, a blank label, an absent label, a company listed
\* twice, a row without a code), a table without an industry column, and
\* the OTC companies (one of them also in the listed table).
MopsTables ==
    [sii |-> [columns |-> <<ColCompanyCode, ColIndustry>>,
              rows |-> <<CompanyRow(1101, Some(" shuini ")),
                         CompanyRow(2330, Some(" ")),
                         CompanyRow(1102, NA),
                         CompanyRow(1101, Some("bandaoti")),
                         <<TextCell("heji"), Some("shuini")>>>>],
     names |-> [columns |-> <<ColCompanyCode, ColCompanyName>>,
                rows |-> <<CompanyRow(1101, Some("co"))>>],
     otc |-> [columns |-> <<ColCompanyCode, ColIndustry>>,
              rows |-> <<CompanyRow(5201, Some("bandaoti")),
                         CompanyRow(2330, Some("bandaoti"))>>]]

\* astype(str) of a label cell: NaN becomes the text "nan"
Str(cell) == IF IsNA(cell) THEN "nan" ELSE cell[1]
\* str.strip() of the texts above
Strip(t) == IF t = " shuini " THEN "shuini" ELSE IF t = " " THEN "" ELSE t
\* astype(str).str.extract(r"(\d{4})")[0]: the first four digits in a row
Extract4(cell) ==
    IF cell.digits >= 4
    THEN Some(cell.code \div (10 ^ (cell.digits - 4)))
    ELSE NA

\* drop_duplicates(subset=["code"]): the first row of each code
DropDuplicateCodes(rows) ==
    LET first == SelectSeq([i \in DOMAIN rows |-> i],
                           LAMBDA i : \A h \in 1..(i - 1) : rows[h].code # rows[i].code)
    IN  [j \in DOMAIN first |-> rows[first[j]]]

\* Lines 46-61
_normalize_industry_map(df) ==
    LET code_col == MopsCol(df.columns, MopsCodeTitles)
        ind_col == MopsCol(df.columns, MopsIndustryTitles)
    IN  IF IsNA(code_col) \/ IsNA(ind_col) THEN <<>>
        ELSE
          LET out == [i \in DOMAIN df.rows |->
                         [code |-> Extract4(df.rows[i][code_col[1]]),
                          twse_industry |-> df.rows[i][ind_col[1]]]]
              coded == SelectSeq(out, LAMBDA r : ~IsNA(r.code))
              uniq == DropDuplicateCodes(coded)
          IN  [i \in DOMAIN uniq |->
                  [code |-> uniq[i].code[1],
                   twse_industry |->
                       IF Strip(Str(uniq[i].twse_industry)) = "" THEN Unclassified
                       ELSE Strip(Str(uniq[i].twse_industry))]]

\* What an endpoint can answer: nothing (no page, or no table in it) or one
\* of the tables.
endpoints == <<"t51sb01", "ajax sii", "ajax otc", "index">>
MopsAnswers == {"none"} \cup DOMAIN MopsTables

\* Lines 78-92: the frames of the endpoints in order, merged
RECURSIVE MergeFrames(_)
MergeFrames(answers) ==
    IF answers = <<>> THEN <<>>
    ELSE (IF Head(answers) = "none" THEN <<>>
          ELSE _normalize_industry_map(MopsTables[Head(answers)]))
         \o MergeFrames(Tail(answers))
update_industry_map(answers) == DropDuplicateCodes(MergeFrames(answers))

\* pd.read_csv: the texts it takes for a missing value
NaStrings == {"", "nan", "NaN", "NA", "N/A", "NULL", "null", "n/a", "<NA>", "#N/A"}
\* to_csv (line 96) followed by read_csv (line 110)
ReadIndustryCsv(rows) ==
    [i \in DOMAIN rows |->
        [code |-> rows[i].code,
         twse_industry |-> IF rows[i].twse_industry \in NaStrings THEN NA
                           ELSE Some(rows[i].twse_industry)]]

\* A row of fund_df: a registry symbol and its market capitalization
SectorFundRow(c, sfx, cap) == [Ticker |-> <<c, sfx>>, marketCap |-> cap]
\* fund_df["Ticker"].astype(str).str.extract(r"(\d{4})")[0]
TickerCode(ticker) == Extract4(CodeCell(4, ticker[1], ticker[2]))

Labelled(row, label) ==
    [Ticker |-> row.Ticker, marketCap |-> row.marketCap, twse_industry |-> label]

\* fund_df.merge(map_df, on="code", how="left"): a row for every entry of
\* the map with the code of the row, one with an absent label if there is none
LeftMergeRow(row, map_df) ==
    LET hits == SelectSeq(map_df, LAMBDA m : Some(m.code) = TickerCode(row.Ticker))
    IN  IF hits = <<>> THEN <<Labelled(row, NA)>>
        ELSE [k \in DOMAIN hits |-> Labelled(row, hits[k].twse_industry)]
RECURSIVE LeftMerge(_, _)
LeftMerge(fund, map_df) ==
    IF fund = <<>> THEN <<>>
    ELSE LeftMergeRow(Head(fund), map_df) \o LeftMerge(Tail(fund), map_df)

\* Lines 99-116; csv is the content of industry_map.csv, NA without the file
attach_industry_to_fundamentals(fund, csv) ==
    IF IsNA(csv)
    THEN [i \in DOMAIN fund |-> Labelled(fund[i], Some(Unclassified))]
    ELSE LET merged == LeftMerge(fund, ReadIndustryCsv(csv[1]))
         IN  [i \in DOMAIN merged |->
                 Labelled(merged[i], Or(merged[i].twse_industry, Some(Unclassified)))]

RECURSIVE SumSeq(_)
SumSeq(xs) == IF xs = <<>> THEN 0 ELSE Head(xs) + SumSeq(Tail(xs))

\* Lines 121-126, as a fraction; returns are whole basis points
_weighted_daily_return(frame) ==
    LET df == SelectSeq(frame, LAMBDA r : ~IsNA(r.DailyReturn) /\ ~IsNA(r.marketCap))
        w == [i \in DOMAIN df |-> Max(df[i].marketCap[1], 0)]
    IN  IF df = <<>> \/ SumSeq(w) = 0 THEN NA
        ELSE Some([num |-> SumSeq([i \in DOMAIN df |-> df[i].DailyReturn[1] * w[i]]),
                   den |-> SumSeq(w)])

\* base = fund_df_with_ind.merge(snr_use, on="Ticker", how="inner")
InnerMergeRow(row, snr_use) ==
    LET hits == SelectSeq(snr_use, LAMBDA r : r.Ticker = row.Ticker)
    IN  [k \in DOMAIN hits |->
            [Ticker |-> row.Ticker, marketCap |-> row.marketCap,
             twse_industry |-> row.twse_industry, DailyReturn |-> hits[k].DailyReturn]]
RECURSIVE InnerMerge(_, _)
InnerMerge(fund, snr_use) ==
    IF fund = <<>> THEN <<>>
    ELSE InnerMergeRow(Head(fund), snr_use) \o InnerMerge(Tail(fund), snr_use)

\* The labels in the order groupby hands the groups over: ascending, the
\* group of the absent label (dropna=False) last
LabelOrder == <<Some(""), Some("bandaoti"), Some("nan"), Some("shuini"),
                Some(Unclassified), NA>>
GroupKeys(base) ==
    SelectSeq(LabelOrder, LAMBDA key : \E i \in DOMAIN base : base[i].twse_industry = key)

\* threshold = 0.003, in basis points
threshold == 30
Relations == <<"youyu dapan", "lieyu dapan", "xiangsi">>

\* Lines 151-168 for one group; `ind` is the group key.  `ind or ...` takes
\* the second label for the empty text alone: NaN is true.
SectorRow(ind, g, market_ret) ==
    LET ind_ret == _weighted_daily_return(g)
        diff == IF ~IsNA(ind_ret) /\ ~IsNA(market_ret)
                THEN Some([num |-> ind_ret[1].num * market_ret[1].den
                                     - market_ret[1].num * ind_ret[1].den,
                           den |-> ind_ret[1].den * market_ret[1].den])
                ELSE NA
        relation == IF IsNA(diff) THEN Relations[3]
                    ELSE IF diff[1].num >= threshold * diff[1].den THEN Relations[1]
                    ELSE IF diff[1].num <= (-threshold) * diff[1].den THEN Relations[2]
                    ELSE Relations[3]
    IN  [twse_industry |-> IF ind = Some("") THEN Some(Unclassified) ELSE ind,
         n |-> Len(g),
         industry_ret |-> ind_ret,
         market_ret |-> market_ret,
         diff |-> diff,
         relation |-> relation]

\* sort_values(["relation", "diff"], ascending=[True, False]): by the text
\* of the relation, then by falling diff with the absent ones last; rows
\* equal in both keep their order
RelationRank(r) == CHOOSE k \in DOMAIN Relations : Relations[k] = r
DiffAbove(a, b) ==
    /\ ~IsNA(a)
    /\ (IsNA(b) \/ a[1].num * b[1].den > b[1].num * a[1].den)
SortsBefore(rows, i, j) ==
    \/ RelationRank(rows[i].relation) < RelationRank(rows[j].relation)
    \/ /\ rows[i].relation = rows[j].relation
       /\ \/ DiffAbove(rows[i].diff, rows[j].diff)
          \/ ~DiffAbove(rows[j].diff, rows[i].diff) /\ i < j
SortRows(rows) ==
    LET order == SortSeq([i \in DOMAIN rows |-> i], LAMBDA i, j : SortsBefore(rows, i, j))
    IN  [k \in DOMAIN rows |-> rows[order[k]]]

\* Lines 141-142: the rows of fund_df_with_ind with a daily return
SectorBase(fund, snr) ==
    InnerMerge(fund, SelectSeq(snr, LAMBDA r : ~IsNA(r.DailyReturn)))

\* Lines 128-170; None is NA.  Without a single row in `base` there is no
\* group, pd.DataFrame([]) has no column and sort_values raises KeyError.
compute_sector_performance(fund_df_with_ind, snr) ==
    IF IsNA(fund_df_with_ind) \/ fund_df_with_ind = Some(<<>>) \/ IsNA(snr) \/ snr = Some(<<>>)
    THEN [raised |-> FALSE, out |-> <<>>]
    ELSE
      LET base == SectorBase(fund_df_with_ind[1], snr[1])
          market_ret == _weighted_daily_return(base)
          keys == GroupKeys(base)
      IN  IF base = <<>> THEN [raised |-> TRUE, out |-> <<>>]
          ELSE [raised |-> FALSE,
                out |-> SortRows([k \in DOMAIN keys |->
                           SectorRow(keys[k],
                                     SelectSeq(base, LAMBDA r : r.twse_industry = keys[k]),
                                     market_ret)])]

\* The tables a caller can hand over.  fund_df: five symbols (one without a
\* market capitalization, one the MOPS tables do not know), no row, one
\* symbol.
SectorFunds ==
    {<<SectorFundRow(1101, ".TW", Some(300)), SectorFundRow(2330, ".TW", Some(700)),
       SectorFundRow(1102, ".TW", NA), SectorFundRow(5201, ".TWO", Some(100)),
       SectorFundRow(9999, ".TW", Some(50))>>,
     <<>>,
     <<SectorFundRow(9999, ".TW", Some(0))>>}
\* snr_df with its DailyReturn column: a return for four of the five symbols,
\* for one symbol, for none; no row; None
SectorSnrs ==
    {Some(<<[Ticker |-> <<1101, ".TW">>, DailyReturn |-> Some(100)],
            [Ticker |-> <<2330, ".TW">>, DailyReturn |-> Some(-50)],
            [Ticker |-> <<1102, ".TW">>, DailyReturn |-> Some(20)],
            [Ticker |-> <<5201, ".TWO">>, DailyReturn |-> NA],
            [Ticker |-> <<9999, ".TW">>, DailyReturn |-> Some(10)]>>),
     Some(<<[Ticker |-> <<9999, ".TW">>, DailyReturn |-> Some(10)]>>),
     Some(<<[Ticker |-> <<9999, ".TW">>, DailyReturn |-> NA]>>),
     Some(<<>>),
     NA}
\* fund_df_with_ind of a caller that labelled the symbols itself: labels
\* present, empty and absent; an absent label alone; None
CallerTables ==
    {Some(<<Labelled(SectorFundRow(1101, ".TW", Some(300)), Some("shuini")),
            Labelled(SectorFundRow(2330, ".TW", Some(700)), Some("")),
            Labelled(SectorFundRow(9999, ".TW", Some(50)), NA)>>),
     Some(<<Labelled(SectorFundRow(9999, ".TW", Some(50)), NA)>>),
     Some(<<Labelled(SectorFundRow(1101, ".TW", Some(300)), Some(Unclassified)),
            Labelled(SectorFundRow(2330, ".TW", Some(700)), Some(""))>>),
     NA}

\* update_industry_map(), lines 63-97
UpdateIndustryMap(answers) ==
    /\ spc = "start"
    /\ mops' = answers
    /\ industry_csv' = Some(update_industry_map(answers))
    /\ spc' = "mapped"
    /\ UNCHANGED <<sec_fund, sec_snr, with_ind, perf, cycleVars, dashVars, bandVars>>

\* attach_industry_to_fundamentals(fund_df, industry_csv), lines 99-116
AttachIndustry ==
    /\ spc \in {"start", "mapped"}
    /\ with_ind' = Some(attach_industry_to_fundamentals(sec_fund[1], industry_csv))
    /\ spc' = "labelled"
    /\ UNCHANGED <<mops, industry_csv, sec_fund, sec_snr, perf, cycleVars, dashVars, bandVars>>

\* compute_sector_performance(fund_df_with_ind, snr_df), lines 128-170
ComputeSectorPerformance ==
    /\ spc = "labelled"
    /\ LET r == compute_sector_performance(with_ind, sec_snr)
       IN  /\ perf' = IF r.raised THEN NA ELSE Some(r.out)
           /\ spc' = IF r.raised THEN "raised" ELSE "done"
    /\ UNCHANGED <<mops, industry_csv, sec_fund, sec_snr, with_ind, cycleVars, dashVars, bandVars>>

\* A caller starts with fund_df (and no industry_map.csv yet) or hands over a
\* table it labelled itself.
InitSector ==
    /\ CycleIdle
    /\ files = NoFiles /\ start = NoFiles
    /\ DashIdle
    /\ BandIdle
    /\ mops = <<>>
    /\ industry_csv = NA
    /\ sec_snr \in SectorSnrs
    /\ perf = NA
    /\ \/ spc = "start" /\ sec_fund \in {Some(f) : f \in SectorFunds} /\ with_ind = NA
       \/ spc = "labelled" /\ sec_fund = NA /\ with_ind \in CallerTables

NextSector ==
    \/ \E answers \in [DOMAIN endpoints -> MopsAnswers] : UpdateIndustryMap(answers)
    \/ AttachIndustry
    \/ ComputeSectorPerformance

SpecSector == InitSector /\ [][NextSector]_vars

-----------------------------------------------------------------------------
(* Properties of the refresh cycle *)

Rows(file) == IF IsNA(file) THEN {} ELSE Range(file[1])
OtherColumns(row) == [f \in DOMAIN row \ {"asOfDate"} |-> row[f]]
Unstamped(rows) == [i \in DOMAIN rows |-> OtherColumns(rows[i])]
MostRecent(dir) == CHOOSE d \in Dates(dir) : \A e \in Dates(dir) : e <= d
HasSnapshot(dir) == Dates(dir.fund_csv) # {} /\ Dates(dir.snr_csv) # {}
FallbackPath == {"fallback", "fallback_write_fund", "fallback_write_snr"}
WritePath == {"write_fund_parquet", "write_fund_csv", "write_snr_parquet", "write_snr_csv"}

\* C1 as stated: after a cycle that ended Reused, every row of both "latest"
\* tables carries today's date, and the other columns are those of the prior
\* snapshot.
C1_ReusedStampedToday ==
    result = "Reused" =>
        /\ \A r \in Rows(files.fund_parquet) \cup Rows(files.snr_parquet) :
              r.asOfDate = IsoDate(today)
        /\ Unstamped(files.fund_parquet[1])
              = Unstamped(start.fund_csv[MostRecent(start.fund_csv)][1])
        /\ Unstamped(files.snr_parquet[1])
              = Unstamped(start.snr_csv[MostRecent(start.snr_csv)][1])

\* C1 amended: after a cycle that ended Reused, every row of both "latest"
\* tables carries the date in the name of the most recent snr_summary archive
\* (not today's date); the other columns of the fundamentals rows are those of
\* the most recent fundamentals archive, and those of the snr_summary rows
\* are those of the most recent snr_summary archive.
C1_ReusedStampedArchiveDate ==
    result = "Reused" =>
        /\ HasSnapshot(start)
        /\ \A r \in Rows(files.fund_parquet) \cup Rows(files.snr_parquet) :
              r.asOfDate = IsoDate(MostRecent(start.snr_csv))
        /\ Unstamped(files.fund_parquet[1])
              = Unstamped(start.fund_csv[MostRecent(start.fund_csv)][1])
        /\ Unstamped(files.snr_parquet[1])
              = Unstamped(start.snr_csv[MostRecent(start.snr_csv)][1])

\* A cycle ended Reused on a day later than the archive it reused, the two
\* tables coming from archives of different days.
C1_Witness ==
    /\ result = "Reused"
    /\ MostRecent(start.snr_csv) < today
    /\ MostRecent(start.fund_csv) # MostRecent(start.snr_csv)
    /\ Rows(files.fund_parquet) # {}

\* C2 as stated: after a crash anywhere in the cycle both "latest" tables are
\* what they were when the cycle started.
C2_CrashKeepsLatest ==
    result = "Crashed" =>
        /\ files.fund_parquet = start.fund_parquet
        /\ files.snr_parquet = start.snr_parquet

\* C3: once the registry came back empty or with fewer than MinUniverse
\* records, the cycle is on the fallback path: no symbol's fundamentals or
\* history is fetched, no write of new data is reached, and the cycle ends
\* Reused or Failed.
C3_SmallRegistryFallsBack ==
    (pc \notin {"fetch", "crashed"} /\ Len(tickers_df) < MinUniverse) =>
        /\ pc \in {"check_registry", "done"} \cup FallbackPath
        /\ fundTried = <<>> /\ histTried = <<>>
        /\ fundEnv = <<>> /\ histEnv = <<>>
        /\ result # "Written"
        /\ pc = "done" => result \in {"Reused", "Failed"}

\* A registry of 99 records sent the cycle to the fallback, which reused the
\* prior snapshot.
C3_Witness ==
    /\ pc = "done" /\ result = "Reused"
    /\ Len(tickers_df) = MinUniverse - 1

\* C4 as stated: a cycle that ended Failed created or modified no file.
C4_FailedWritesNothing ==
    result = "Failed" => files = start

\* C4 amended: a fallback without a prior snapshot (no fundamentals archive or
\* no snr_summary archive) ends Failed and never Reused; a cycle that ended
\* Failed left the "latest" files and the archives of fundamentals and
\* snr_summary as they were; it may have written tickers_<today>.csv.
C4_FailedKeepsSnapshot ==
    /\ ~HasSnapshot(start) => (pc \notin {"fallback_write_fund", "fallback_write_snr"}
                               /\ result # "Reused")
    /\ result = "Failed" =>
          /\ ~HasSnapshot(start)
          /\ files.fund_parquet = start.fund_parquet
          /\ files.snr_parquet = start.snr_parquet
          /\ files.fund_csv = start.fund_csv
          /\ files.snr_csv = start.snr_csv
          /\ \A d \in DOMAIN files.tickers_csv :
                d # today => files.tickers_csv[d] = start.tickers_csv[d]

\* A cycle with a fundamentals archive but no snr_summary archive ended
\* Failed after a too-small registry had been written to tickers_<today>.csv.
C4_Witness ==
    /\ result = "Failed"
    /\ Dates(start.fund_csv) # {}
    /\ files.tickers_csv # start.tickers_csv
    /\ Len(tickers_df) < MinUniverse

\* C5 as stated: when t.info and t.fast_info failed for every symbol, the
\* cycle writes no new data and does not end Written.
C5_NoFundamentalsNeverWritten ==
    (fundEnv # <<>> /\ \A i \in DOMAIN fundEnv : fundEnv[i] = "nodata") =>
        /\ pc \notin WritePath
        /\ result # "Written"

\* The most recent trading day among the symbols whose price history came
\* back non-empty in this cycle
Observed == {i \in DOMAIN histEnv : histEnv[i].k = "rows" /\ histEnv[i].rows > histEnv[i].gaps}
MarketDay == SetMax({today - histEnv[i].lag : i \in Observed})

\* C6: after a cycle that ended Written, every row of the "latest" and of the
\* dated fundamentals and snr_summary tables carries one as-of date, the most
\* recent trading day seen in any non-empty price history of the cycle.
C6_OneAsOfDate ==
    result = "Written" =>
        /\ Observed # {}
        /\ ~IsNA(files.fund_csv[MarketDay]) /\ ~IsNA(files.snr_csv[MarketDay])
        /\ Rows(files.fund_parquet) # {} /\ Rows(files.snr_parquet) # {}
        /\ \A r \in Rows(files.fund_parquet) \cup Rows(files.snr_parquet)
                    \cup Rows(files.fund_csv[MarketDay])
                    \cup Rows(files.snr_csv[MarketDay]) :
              r.asOfDate = IsoDate(MarketDay)

\* A cycle ended Written in which the symbol with the most recent trading day
\* had too short a history for a band and the others traded a day earlier.
C6_Witness ==
    /\ result = "Written"
    /\ \E i \in Observed :
          /\ histEnv[i].lag = 0 /\ histEnv[i].gaps > 0
          /\ \A j \in Observed \ {i} : histEnv[j].lag = 1

\* the valid records of a fetched table: its rows with a four-digit code
ValidRecords(t) ==
    {[code |-> r[1].code, market |-> r[2].text] :
        r \in {x \in Range(Tail(Tables[t])) : x[1].digits = 4}}
Usable(t) == Tables[t][1] = HeaderRow
Returned == {[code |-> r.code, market |-> r.market] : r \in Range(tickers_df)}

\* C7 as stated: each url is requested at most `retries` times, and if some
\* url handed back a usable table, the returned registry holds that table's
\* valid records (it is empty only if no url did).
C7_SubsetOfSourcesSuffices ==
    pc = "check_registry" =>
        /\ \A u \in DOMAIN urls : Len(responses[u]) <= retries
        /\ \A u \in DOMAIN urls : \A k \in DOMAIN responses[u] :
              (IsTable(responses[u][k]) /\ Usable(responses[u][k]))
                  => ValidRecords(responses[u][k]) \subseteq Returned

\* C12 as stated: the registry handed back by fetch_tw_tickers is keyed by
\* code: no two of its records have the same code, and no canonical symbol
\* (code and suffix) is twice in the universe of the cycle.
C12_KeyedByCode ==
    /\ Cardinality({tickers_df[i].code : i \in DOMAIN tickers_df}) = Len(tickers_df)
    /\ Cardinality(Range(Tickers)) = Len(Tickers)

\* the symbols a source answered for without raising
Answered(tickers, env, bad) ==
    SelectSeq([i \in DOMAIN tickers |-> i], LAMBDA i : env[i] # bad)

\* C8: whatever the sources do for the other symbols, each registry symbol is
\* attempted exactly once, in order, by the fundamentals loop and by the
\* history loop, the fundamentals of every symbol that did not raise are
\* kept, and the cycle goes on after the loop.
C8_FailuresIsolated ==
    /\ fundEnv # <<>> =>
          /\ fundTried = Tickers
          /\ [j \in DOMAIN fund_df |-> fund_df[j].Ticker]
                = [j \in DOMAIN Answered(Tickers, fundEnv, "raise") |->
                      Tickers[Answered(Tickers, fundEnv, "raise")[j]]]
          /\ pc \in {"history", "done"} \cup FallbackPath \cup WritePath
    /\ histEnv # <<>> =>
          /\ histTried = Tickers
          /\ Len(last_dates) = Cardinality(Observed)
          /\ pc \in {"done"} \cup FallbackPath \cup WritePath

\* Both loops have run over 100 symbols, the first symbol having raised in
\* each, and the cycle ended Written.
C8_Witness ==
    /\ result = "Written"
    /\ Len(Tickers) = MinUniverse
    /\ fundEnv[1] = "raise"
    /\ histEnv[1].k = "raise"
    /\ Len(fund_df) = MinUniverse - 1

\* the band series of a symbol's history: no rows when the download raised
\* or came back empty
Series(kind, day) ==
    IF kind.k = "raise" \/ fetch_history(kind, day) = <<>> THEN <<>>
    ELSE Bands(fetch_history(kind, day), SnrWindow)
SeriesOfKind(day) == <<>> \o [j \in DOMAIN HistKindSeq |-> Series(HistKindSeq[j], day)]
KindIndex(kind) == CHOOSE j \in DOMAIN HistKindSeq : HistKindSeq[j] = kind
Banded(series) == \E t \in DOMAIN series : Complete(series[t])

\* the cycle runs on day Today: the series of each kind of history, the kinds
\* with a complete row, and the most recent row of those
SeriesToday == SeriesOfKind(Today)
BandedKinds == {j \in DOMAIN HistKindSeq : Banded(SeriesToday[j])}
LastRows == <<>> \o [j \in DOMAIN HistKindSeq |->
                       IF j \in BandedKinds THEN Last(SeriesToday[j]) ELSE NA]

\* what snr_summary must hold
SummaryRight(rows) ==
    LET kinds == <<>> \o [i \in DOMAIN histEnv |-> KindIndex(histEnv[i])]
        kept == SelectSeq([i \in DOMAIN histEnv |-> i], LAMBDA i : kinds[i] \in BandedKinds)
    IN  /\ Len(rows) = Len(kept)
        /\ \A j \in DOMAIN rows :
              LET last == LastRows[kinds[kept[j]]]
              IN  /\ rows[j].Ticker = Tickers[kept[j]]
                  /\ rows[j].LastDate.day = last.Date
                  /\ rows[j].Close = last.Close
                  /\ rows[j].S = last.S /\ rows[j].N = last.N /\ rows[j].R = last.R
                  /\ ~IsNA(rows[j].S) /\ ~IsNA(rows[j].N) /\ ~IsNA(rows[j].R)

\* C13: after a cycle that ended Written, snr_summary ("latest" and dated)
\* holds, in registry order, one row for each symbol whose history has a
\* complete row and none for any other symbol; each row is the most recent
\* row of the symbol's band series, and its support, median and resistance
\* are present.
C13_LastCompleteRow ==
    result = "Written" =>
        /\ today = Today
        /\ SummaryRight(files.snr_parquet[1])
        /\ SummaryRight(files.snr_csv[file_date[1].day][1])

\* A cycle ended Written in which the first symbol had a history with two
\* complete rows and the others a history too short for a band or none.
C13_Witness ==
    /\ result = "Written"
    /\ histEnv[1].k = "rows" /\ histEnv[1].rows > MinPeriods(SnrWindow)
    /\ \A i \in DOMAIN histEnv \ {1} : KindIndex(histEnv[i]) \notin BandedKinds
    /\ Len(files.snr_parquet[1]) = 1

-----------------------------------------------------------------------------
(* Properties of the sector aggregator *)

\* the rows of the fetched tables that have a code and an industry column, in
\* the order of the endpoints
RECURSIVE MopsRows(_)
MopsRows(answers) ==
    IF answers = <<>> THEN <<>>
    ELSE (IF Head(answers) # "none"
             /\ MopsTables[Head(answers)].columns = <<ColCompanyCode, ColIndustry>>
          THEN MopsTables[Head(answers)].rows ELSE <<>>)
         \o MopsRows(Tail(answers))
\* the entries of the industry map for a code
EntriesOf(c) == SelectSeq(MopsRows(mops), LAMBDA row : row[1] = CodeCell(4, c, ""))
Blank(label) == IsNA(label) \/ label[1] \in {"", " "}

\* the industry of the symbol of a row of fund_df_with_ind is missing
Missing(row) ==
    IF IsNA(sec_fund)
    THEN Blank(row.twse_industry)
    ELSE \/ IsNA(industry_csv)
         \/ EntriesOf(row.Ticker[1]) = <<>>
         \/ Blank(EntriesOf(row.Ticker[1])[1][2])

\* the symbols the aggregation is about: those of fund_df_with_ind with a
\* daily return in snr_df
Aggregated ==
    IF IsNA(with_ind) \/ IsNA(sec_snr) THEN <<>> ELSE SectorBase(with_ind[1], sec_snr[1])
BucketSizes(rows) == [k \in DOMAIN rows |-> rows[k].n]
InUnclassified ==
    SumSeq(BucketSizes(SelectSeq(perf[1], LAMBDA b : b.twse_industry = Some(Unclassified))))
MissingCounted ==
    /\ SumSeq(BucketSizes(perf[1])) = Len(Aggregated)
    /\ InUnclassified
          = Len(SelectSeq(Aggregated,
                          LAMBDA row : Missing(row) \/ row.twse_industry = Some(Unclassified)))

\* C11 as stated: once compute_sector_performance has returned its buckets,
\* every aggregated symbol is counted in one of them, and the symbols whose
\* industry is missing (no entry in the industry map, an entry with an empty
\* or absent label, an absent label in the table handed over) are the ones
\* counted in the buckets labelled "weifenlei" (unclassified).
C11_MissingIsUnclassified ==
    (spc = "done" /\ perf # Some(<<>>)) => MissingCounted

-----------------------------------------------------------------------------
(* Properties of the dashboard loader *)

LatestGood(file) == Readable(file) /\ file[1] # <<>>
Loaded == dpc \in {"pick_date", "render", "on_demand", "database"}
Entries(name) == {i \in DOMAIN used_files : used_files[i].file = name}

\* what load_db must hand back for one table, once it has returned
LoadedRight(latest, dir, df, parquet, csv) ==
    /\ ~IsNA(latest) => Entries(parquet) # {}
    /\ \A i \in Entries(parquet) : \A j \in Entries(csv) : i < j
    /\ LatestGood(latest) => (df = latest /\ Entries(csv) = {})
    /\ (~LatestGood(latest) /\ Dates(dir) # {}) =>
          /\ df = dir[MostRecent(dir)]
          /\ \E j \in Entries(csv) : used_files[j].day = MostRecent(dir)
    /\ (~LatestGood(latest) /\ Dates(dir) = {}) =>
          /\ Entries(csv) = {}
          /\ (IsNA(latest) \/ IsCorrupt(latest)) => IsNA(df)

NothingStored ==
    /\ IsNA(files.fund_parquet) /\ Dates(files.fund_csv) = {}
    /\ IsNA(files.snr_parquet) /\ Dates(files.snr_csv) = {}

\* C9: for each table load_db reads the "latest" file first and keeps it if
\* it is readable and not empty; only otherwise it takes the dated file of the
\* most recent day; with neither it hands back no table, and with nothing
\* stored at all the dashboard does not raise and ends in on-demand mode.
C9_LatestThenNewestArchive ==
    /\ Loaded =>
          /\ LoadedRight(files.fund_parquet, files.fund_csv, dfund,
                         "fundamentals.parquet", "fundamentals.csv")
          /\ LoadedRight(files.snr_parquet, files.snr_csv, dsnr,
                         "snr_summary.parquet", "snr_summary.csv")
    /\ NothingStored => dpc # "raised"
    /\ dpc = "database" => ~NoTable(dfund)
    /\ (dpc = "on_demand" /\ IsNA(files.fund_parquet) /\ Dates(files.fund_csv) = {})
          => IsNA(dfund)

\* The unreadable "latest" fundamentals made the loader take the newer of two
\* dated files, and the dashboard shows the database.
C9_Witness ==
    /\ dpc = "database"
    /\ IsCorrupt(files.fund_parquet)
    /\ Cardinality(Dates(files.fund_csv)) = 2
    /\ dfund = files.fund_csv[Today - 1]
    /\ LatestGood(files.snr_parquet)

-----------------------------------------------------------------------------
(* Properties of the band calculator *)

\* the closes observed in the window of `window` rows ending at row t
Count(t) ==
    Cardinality({i \in Max(1, t - window + 1)..t : ~IsNA(closes[i].Close)})
BandAbsent(r) == IsNA(r.S) /\ IsNA(r.N) /\ IsNA(r.R)
BandPresent(r) == ~IsNA(r.S) /\ ~IsNA(r.N) /\ ~IsNA(r.R)
BandsDone == bpc = "done" /\ closes # <<>>

\* C10 as stated: the band of a date is absent when the count of its window
\* is below max(20, W/4), W/4 being the exact quotient, and present otherwise.
C10_FloorExactQuarter ==
    BandsDone =>
        /\ Len(bandApp) = Len(closes) /\ Len(bandUpd) = Len(closes)
        /\ \A t \in DOMAIN closes :
              IF Count(t) < 20 \/ 4 * Count(t) < window
              THEN BandAbsent(bandApp[t]) /\ BandAbsent(bandUpd[t])
              ELSE BandPresent(bandApp[t]) /\ BandPresent(bandUpd[t])

\* C10 amended: the band of a date is absent when the count of its window is
\* below max(20, W // 4), W // 4 being the quotient rounded down, and present
\* otherwise.
C10_FloorWholeQuarter ==
    BandsDone =>
        /\ Len(bandApp) = Len(closes) /\ Len(bandUpd) = Len(closes)
        /\ \A t \in DOMAIN closes :
              IF Count(t) < 20 \/ Count(t) < window \div 4
              THEN BandAbsent(bandApp[t]) /\ BandAbsent(bandUpd[t])
              ELSE BandPresent(bandApp[t]) /\ BandPresent(bandUpd[t])

\* A window size that 4 does not divide, and a date with exactly W // 4
\* closes in its window that has a band.
C10_Witness ==
    /\ BandsDone
    /\ window % 4 # 0
    /\ \E t \in DOMAIN closes :
          /\ Count(t) = window \div 4
          /\ Count(t) >= 20
          /\ Count(t) < t
          /\ BandPresent(bandApp[t]) /\ BandPresent(bandUpd[t])

====
